---- MODULE Spec2Model ----
(***************************************************************************)
(* Datos_organizados.py: the line parser (parse_line), the collector       *)
(* (parse_file, and the head of procesar_buffer) and the hourly            *)
(* aggregation (procesar, procesar_buffer).                                *)
(*                                                                         *)
(* Text is a sequence of one-character strings.  The two control           *)
(* characters '\x02' and '\x03' are written STX and ETX.                   *)
(***************************************************************************)
EXTENDS Integers, Sequences, FiniteSets, TLC

VARIABLES
    entry,     \* the function called: "parse_line", "procesar", "procesar_buffer"
    frame,     \* how the line handed to parse_line was put together on the wire
    lines,     \* the input lines, in order
    pc,        \* position in the called function
    i,         \* index of the next line to read
    parsed,    \* procesar_buffer line 68: parse_line's result for every line read
    filas,     \* the collected Records
    stdout,    \* what print() wrote
    exported,  \* the table procesar wrote to <stem>_promedios.csv
    outcome    \* what the call gave back to its caller

vars == <<entry, frame, lines, pc, i, parsed, filas, stdout, exported, outcome>>

(***************************************************************************)
(* Characters                                                              *)
(***************************************************************************)
STX == "STX"
ETX == "ETX"

Digits == {"0", "1", "2", "3", "4", "5", "6", "7", "8", "9"}

Letters ==
    {"A", "B", "C", "D", "E", "F", "G", "H", "I", "J", "K", "L", "M",
     "N", "O", "P", "Q", "R", "S", "T", "U", "V", "W", "X", "Y", "Z",
     "a", "b", "c", "d", "e", "f", "g", "h", "i", "j", "k", "l", "m",
     "n", "o", "p", "q", "r", "s", "t", "u", "v", "w", "x", "y", "z"}

HexDigits == Digits \cup {"A", "B", "C", "D", "E", "F", "a", "b", "c", "d", "e", "f"}

\* The characters str.strip() and str.lstrip() remove when given no argument.
Whitespace == {" ", "\t", "\n", "\r"}

(***************************************************************************)
(* str methods                                                             *)
(***************************************************************************)
RECURSIVE LStripSet(_, _)
\* s.lstrip(chars)
LStripSet(s, chars) ==
    IF s # <<>> /\ Head(s) \in chars THEN LStripSet(Tail(s), chars) ELSE s

RECURSIVE RStripSet(_, _)
\* s.rstrip(chars)
RStripSet(s, chars) ==
    IF s # <<>> /\ s[Len(s)] \in chars
    THEN RStripSet(SubSeq(s, 1, Len(s) - 1), chars)
    ELSE s

\* s.lstrip()
LStrip(s) == LStripSet(s, Whitespace)

\* s.strip()
Strip(s) == RStripSet(LStripSet(s, Whitespace), Whitespace)

\* s.replace(c, '')
Remove(s, c) == SelectSeq(s, LAMBDA x : x # c)

\* Index of the first c in s, 0 when there is none.
Find(s, c) ==
    IF \E k \in 1..Len(s) : s[k] = c
    THEN CHOOSE k \in 1..Len(s) : s[k] = c /\ \A j \in 1..(k - 1) : s[j] # c
    ELSE 0

RECURSIVE Split(_)
\* s.split(",")
Split(s) ==
    LET k == Find(s, ",")
    IN  IF k = 0
        THEN <<s>>
        ELSE <<SubSeq(s, 1, k - 1)>> \o Split(SubSeq(s, k + 1, Len(s)))

\* s.split(",", 1)
Split1(s) ==
    LET k == Find(s, ",")
    IN  IF k = 0
        THEN <<s>>
        ELSE <<SubSeq(s, 1, k - 1), SubSeq(s, k + 1, Len(s))>>

(***************************************************************************)
(* parse_line                                                              *)
(***************************************************************************)
\* The pattern of line 11, one class per character:
\* [A-Za-z]{3} \d{2} [A-Za-z]{3} \d{4} \d{2}:\d{2}:\d{2}
PreamblePattern ==
    <<Letters, Letters, Letters, {" "}, Digits, Digits, {" "},
      Letters, Letters, Letters, {" "}, Digits, Digits, Digits, Digits, {" "},
      Digits, Digits, {":"}, Digits, Digits, {":"}, Digits, Digits>>

\* re.match(r'^...', line)
PreambleMatch(line) ==
    /\ Len(line) >= Len(PreamblePattern)
    /\ \A k \in 1..Len(PreamblePattern) : line[k] \in PreamblePattern[k]

\* IsChecksum had the pattern been [0-9A-Fa-f]{2}.
IsChecksumPairOnly(tok) ==
    /\ Len(tok) = 2
    /\ \A k \in 1..Len(tok) : tok[k] \in HexDigits

\* re.fullmatch(r'[0-9A-Fa-f]{1,2}', tok)
IsChecksum(tok) ==
    /\ Len(tok) \in {1, 2}
    /\ \A k \in 1..Len(tok) : tok[k] \in HexDigits

\* Whether line.split(",", 1)[1] exists.
HasComma(line) == Len(Split1(line)) > 1

\* Lines 14-15: the comma-separated pieces after the first comma that are not
\* the empty string, each with STX and ETX removed and then stripped.
Tokenize(line) ==
    LET rest == LStrip(Split1(line)[2])
        raw  == SelectSeq(Split(rest), LAMBDA p : p # <<>>)
    IN  [k \in 1..Len(raw) |-> Strip(Remove(Remove(raw[k], STX), ETX))]

\* Lines 17-18.
DropQ(parts) ==
    IF parts # <<>> /\ parts[1] = <<"Q">> THEN Tail(parts) ELSE parts

\* Lines 20-21.
DropCrc(parts) ==
    IF parts # <<>> /\ IsChecksum(parts[Len(parts)])
    THEN SubSeq(parts, 1, Len(parts) - 1)
    ELSE parts

\* parts as it reaches the test of line 23.
GateParts(line) == DropCrc(DropQ(Tokenize(line)))

\* The number of tokens line 23 asks for.
Arity == 13

\* SignStrip had it been .lstrip("+-").
SignStripBoth(tok) == LStripSet(tok, {"+", "-"})

\* .lstrip("+") of lines 26-27.
SignStrip(tok) == LStripSet(tok, {"+"})

\* PopPenultimate had it been parts.pop().
PopLast(parts) == SubSeq(parts, 1, Len(parts) - 1)

\* parts.pop(-2) of line 28.
PopPenultimate(parts) ==
    SubSeq(parts, 1, Len(parts) - 2) \o <<parts[Len(parts)]>>

\* Lines 26-29.
Finish(parts) ==
    PopPenultimate([parts EXCEPT ![6] = SignStrip(@), ![7] = SignStrip(@)])

\* What a call of parse_line gives: None, a list, or an IndexError raised
\* by line 14.
PyNone == [kind |-> "None", val |-> <<>>]
PyList(v) == [kind |-> "list", val |-> v]
PyRaise(e) == [kind |-> e, val |-> <<>>]

parse_line(line) ==
    IF ~PreambleMatch(line) THEN PyNone
    ELSE IF ~HasComma(line) THEN PyRaise("IndexError")
    ELSE LET parts == GateParts(line)
         IN  IF Len(parts) # Arity THEN PyNone ELSE PyList(Finish(parts))

\* bool(row): None and the empty list are false.
Truthy(r) == r.kind = "list" /\ r.val # <<>>

(***************************************************************************)
(* The lines handed to parse_line                                          *)
(*                                                                         *)
(* A line is a stamp, a separator, the comma-joined tokens (an optional Q  *)
(* marker, the data tokens, an optional checksum) and a line ending.       *)
(***************************************************************************)
RECURSIVE Join(_)
\* ",".join(toks)
Join(toks) ==
    IF toks = <<>> THEN <<>>
    ELSE IF Len(toks) = 1 THEN toks[1]
    ELSE toks[1] \o <<",">> \o Join(Tail(toks))

GoodStamp ==
    <<"M", "o", "n", " ", "0", "1", " ", "J", "a", "n", " ",
      "2", "0", "2", "4", " ", "1", "0", ":", "0", "0", ":", "0", "0">>

\* A stamp whose day has one digit, and no stamp at all.
ShortDayStamp ==
    <<"M", "o", "n", " ", "1", " ", "J", "a", "n", " ",
      "2", "0", "2", "4", " ", "1", "0", ":", "0", "0", ":", "0", "0">>

Stamps == {GoodStamp, ShortDayStamp, <<>>}

\* What stands between the stamp and the first token: a comma, a comma and a
\* blank, nothing at all, or more text and then the comma.
Seps == {<<",">>, <<",", " ">>, <<>>, <<".", "5", ",">>}

NoCrc == <<>>
Crcs == {NoCrc, <<<<"7", "F">>>>, <<<<"A">>>>}

Eols == {<<>>, <<"\n">>}

\* Data tokens that differ from one another; Temp and PuntoRocio carry a sign.
BaseData ==
    <<<<"g">>, <<"h">>, <<"i">>, <<"j">>, <<"k">>, <<"+", "l">>, <<"-", "m">>,
      <<"n">>, <<"o">>, <<"p">>, <<"r">>, <<"s">>, <<"t">>, <<"u">>, <<"v">>,
      <<"w">>, <<"x">>, <<"y">>, <<"z">>>>

\* The tokens put in the place of one data token.
VarTokens ==
    {<<"Q">>, <<"A">>, <<"7", "F">>, <<"+", "+", "x">>, <<" ">>, <<STX>>, <<>>,
     <<" ", "x", ETX>>, <<"l">>, <<"s">>}

\* How far the number of data tokens is from Arity.
Slack == 1

DataLens == {0, 1} \cup ((Arity - Slack)..(Arity + Slack))

\* The first n base tokens, with at most one of them replaced.
DataOf(n) ==
    {SubSeq(BaseData, 1, n)}
    \cup {[SubSeq(BaseData, 1, n) EXCEPT ![k] = v] : k \in 1..n, v \in VarTokens}

Frames ==
    UNION {[stamp : Stamps, sep : Seps, q : BOOLEAN, data : DataOf(n),
            crc : Crcs, eol : Eols] : n \in DataLens}

MkLine(f) ==
    f.stamp \o f.sep
        \o Join((IF f.q THEN <<<<"Q">>>> ELSE <<>>) \o f.data \o f.crc)
        \o f.eol

NoFrame ==
    [stamp |-> <<>>, sep |-> <<>>, q |-> FALSE, data |-> <<>>, crc |-> NoCrc,
     eol |-> <<>>]

Pending == [kind |-> "pending", val |-> <<>>]

(***************************************************************************)
(* One call of parse_line                                                  *)
(***************************************************************************)
InitParse ==
    /\ entry = "parse_line"
    /\ frame \in Frames
    /\ lines = <<MkLine(frame)>>
    /\ pc = "call"
    /\ i = 1
    /\ parsed = <<>>
    /\ filas = <<>>
    /\ stdout = <<>>
    /\ exported = <<>>
    /\ outcome = Pending

CallParseLine ==
    /\ entry = "parse_line"
    /\ pc = "call"
    /\ outcome' = parse_line(lines[1])
    /\ pc' = "done"
    /\ UNCHANGED <<entry, frame, lines, i, parsed, filas, stdout, exported>>

NextParse == CallParseLine

SpecParse == InitParse /\ [][NextParse]_vars

(***************************************************************************)
(* pandas: to_numeric, to_datetime, dt.floor, groupby(...).mean()          *)
(*                                                                         *)
(* A number is held in tenths (the readings carry at most one decimal), a  *)
(* mean as a fraction in lowest terms, and NaN as the fraction 0/0.        *)
(***************************************************************************)
DigitVal ==
    "0" :> 0 @@ "1" :> 1 @@ "2" :> 2 @@ "3" :> 3 @@ "4" :> 4 @@
    "5" :> 5 @@ "6" :> 6 @@ "7" :> 7 @@ "8" :> 8 @@ "9" :> 9

IsDigits(s) == \A k \in 1..Len(s) : s[k] \in Digits

RECURSIVE DecimalValue(_)
\* The number a run of digits writes.
DecimalValue(s) ==
    IF s = <<>> THEN 0
    ELSE DecimalValue(SubSeq(s, 1, Len(s) - 1)) * 10 + DigitVal[s[Len(s)]]

NaN == [ok |-> FALSE, v |-> 0]

\* pd.to_numeric(tok, errors="coerce"): an optional sign, digits, and an
\* optional point with at most one digit after it; anything else is NaN.
ToNumeric(tok) ==
    LET signed == tok # <<>> /\ tok[1] \in {"+", "-"}
        body   == IF signed THEN Tail(tok) ELSE tok
        dot    == Find(body, ".")
        whole  == IF dot = 0 THEN body ELSE SubSeq(body, 1, dot - 1)
        frac   == IF dot = 0 THEN <<>> ELSE SubSeq(body, dot + 1, Len(body))
        tenths == DecimalValue(whole) * 10 + DecimalValue(frac)
    IN  IF /\ IsDigits(whole) /\ IsDigits(frac)
           /\ Len(whole) + Len(frac) > 0
           /\ Len(frac) <= 1
        THEN [ok |-> TRUE, v |-> IF tok[1] = "-" THEN 0 - tenths ELSE tenths]
        ELSE NaN

NaT == [ok |-> FALSE, y |-> 0, mo |-> 0, d |-> 0, h |-> 0, mi |-> 0, s |-> 0]

\* YYYY-MM-DDTHH:MM:SS, one class per character.
IsoPattern ==
    <<Digits, Digits, Digits, Digits, {"-"}, Digits, Digits, {"-"}, Digits, Digits,
      {"T", " "}, Digits, Digits, {":"}, Digits, Digits, {":"}, Digits, Digits>>

DaysIn(y, mo) ==
    IF mo = 2
    THEN IF (y % 4 = 0 /\ y % 100 # 0) \/ y % 400 = 0 THEN 29 ELSE 28
    ELSE IF mo \in {4, 6, 9, 11} THEN 30 ELSE 31

\* pd.to_datetime(tok, errors="coerce") of an ISO 8601 date and time without
\* offset; anything else is NaT.
ToDatetime(tok) ==
    IF Len(tok) = Len(IsoPattern) /\ \A k \in 1..Len(tok) : tok[k] \in IsoPattern[k]
    THEN LET y  == DecimalValue(SubSeq(tok, 1, 4))
             mo == DecimalValue(SubSeq(tok, 6, 7))
             d  == DecimalValue(SubSeq(tok, 9, 10))
             h  == DecimalValue(SubSeq(tok, 12, 13))
             mi == DecimalValue(SubSeq(tok, 15, 16))
             s  == DecimalValue(SubSeq(tok, 18, 19))
         IN  IF /\ y >= 1 /\ mo \in 1..12 /\ d \in 1..DaysIn(y, mo)
                /\ h \in 0..23 /\ mi \in 0..59 /\ s \in 0..59
             THEN [ok |-> TRUE, y |-> y, mo |-> mo, d |-> d, h |-> h, mi |-> mi, s |-> s]
             ELSE NaT
    ELSE NaT

\* The columns averaged: all but FechaISO and Flag (lines 48, 77).
NumCols == 1..10

\* Lines 47-50 and 76-79: the frame with its columns coerced.
Coerce(rows) ==
    [k \in 1..Len(rows) |->
        [num   |-> [f \in NumCols |-> ToNumeric(rows[k][f])],
         fecha |-> ToDatetime(rows[k][11])]]

\* Lines 51 and 80: df.dropna(subset=["FechaISO"]).
DropNa(df) == SelectSeq(df, LAMBDA r : r.fecha.ok)

\* ts.floor("h")
FloorHour(ts) == <<ts.y, ts.mo, ts.d, ts.h>>

\* Lines 52 and 81: the column FechaHora.
WithHour(df) ==
    [k \in 1..Len(df) |-> [num |-> df[k].num, FechaHora |-> FloorHour(df[k].fecha)]]

\* a < b for two hour boundaries.
HourBefore(a, b) ==
    \E k \in 1..4 : a[k] < b[k] /\ \A j \in 1..(k - 1) : a[j] = b[j]

RECURSIVE SortHours(_)
\* The hours of a set in ascending order.
SortHours(S) ==
    IF S = {} THEN <<>>
    ELSE LET m == CHOOSE x \in S : \A y \in S \ {x} : HourBefore(x, y)
         IN  <<m>> \o SortHours(S \ {m})

RECURSIVE FirstSeen(_)
\* The distinct hours of a frame in the order they first appear.
FirstSeen(df) ==
    IF df = <<>> THEN <<>>
    ELSE LET front == FirstSeen(SubSeq(df, 1, Len(df) - 1))
             last  == df[Len(df)].FechaHora
         IN  IF \E k \in 1..Len(front) : front[k] = last
             THEN front
             ELSE Append(front, last)

\* GroupKeys had the groupby been given sort=False.
GroupKeysUnsorted(df) == FirstSeen(df)

\* The group keys of groupby("FechaHora"): distinct and sorted.
GroupKeys(df) == SortHours({df[k].FechaHora : k \in 1..Len(df)})

RECURSIVE Gcd(_, _)
Gcd(a, b) == IF b = 0 THEN a ELSE Gcd(b, a % b)

Abs(n) == IF n < 0 THEN 0 - n ELSE n

\* n / d in lowest terms, d > 0.
Fraction(n, d) ==
    LET g == Gcd(Abs(n), d)
    IN  [num |-> IF n < 0 THEN 0 - (Abs(n) \div g) ELSE n \div g, den |-> d \div g]

MissingMean == [num |-> 0, den |-> 0]

RECURSIVE SumTenths(_)
SumTenths(vals) ==
    IF vals = <<>> THEN 0 ELSE vals[1].v + SumTenths(Tail(vals))

\* ColMean had NaN been filled with 0 before the mean.
ColMeanZeroFill(group, f) ==
    LET vals == [k \in 1..Len(group) |-> group[k].num[f]]
    IN  Fraction(SumTenths(vals), 10 * Len(vals))

\* The mean of column f over a group, NaN skipped; NaN when nothing is left.
ColMean(group, f) ==
    LET vals == SelectSeq([k \in 1..Len(group) |-> group[k].num[f]],
                          LAMBDA x : x.ok)
    IN  IF vals = <<>>
        THEN MissingMean
        ELSE Fraction(SumTenths(vals), 10 * Len(vals))

\* Lines 53 and 82: df.groupby("FechaHora")[num].mean().reset_index().
GroupMean(df) ==
    LET keys == GroupKeys(df)
    IN  [j \in 1..Len(keys) |->
            [FechaHora |-> keys[j],
             mean |-> [f \in NumCols |->
                         ColMean(SelectSeq(df, LAMBDA r : r.FechaHora = keys[j]), f)]]]

\* Lines 47-53 and 76-82.
HourlyMeans(rows) == GroupMean(WithHour(DropNa(Coerce(rows))))

PyDataFrame(v) == [kind |-> "DataFrame", val |-> v]

(***************************************************************************)
(* The lines handed to procesar and procesar_buffer                        *)
(***************************************************************************)
Iso(date, hhmm) == date \o <<"T">> \o hhmm \o <<":", "0", "0">>

Jan01 == <<"2", "0", "2", "4", "-", "0", "1", "-", "0", "1">>
Dec31 == <<"2", "0", "2", "3", "-", "1", "2", "-", "3", "1">>

\* A telemetry frame: Q, the 13 data tokens, the checksum.
StationLine(vel, hum, temp, fecha) ==
    MkLine([stamp |-> GoodStamp, sep |-> <<",">>, q |-> TRUE,
            data |-> <<<<"2", "7", "0">>, vel, <<"2", "6", "8">>,
                       <<"1", "0", "1", "3">>, hum, temp, <<"+", "9", ".", "5">>,
                       <<"0", ".", "0">>, <<"0", ".", "0">>, <<"3", "5", "0">>,
                       fecha, <<"1", "2", ".", "1">>, <<"0">>>>,
            crc |-> <<<<"7", "F">>>>, eol |-> <<"\n">>])

NoReading == <<"/", "/">>

LineA == StationLine(<<"3", ".", "0">>, <<"4", "0">>, <<"+", "2", "0">>,
                     Iso(Jan01, <<"1", "0", ":", "1", "5">>))
LineB == StationLine(<<"5", ".", "0">>, NoReading, <<"2", "2">>,
                     Iso(Jan01, <<"1", "0", ":", "4", "5">>))
LineC == StationLine(<<"4", ".", "0">>, <<"5", "0">>, <<"-", "5", ".", "0">>,
                     Iso(Jan01, <<"0", "9", ":", "3", "0">>))
LineD == StationLine(<<"1", ".", "5">>, NoReading, <<"+", "2", "1", ".", "5">>,
                     Iso(Dec31, <<"2", "3", ":", "5", "0">>))
\* A frame whose FechaISO is no timestamp.
LineE == StationLine(<<"2", ".", "0">>, <<"6", "0">>, <<"7">>, NoReading)
\* A banner, a stamp cut before its comma, a frame cut after 12 tokens.
LineBanner == <<"O", "K", "\n">>
LineCut == GoodStamp \o <<"\n">>
LineShort ==
    GoodStamp \o <<",">> \o Join(SubSeq(BaseData, 1, Arity - 1)) \o <<"\n">>

LineFamily == {LineA, LineB, LineC, LineD, LineE, LineBanner, LineCut, LineShort}

MaxLines == 3

RECURSIVE SeqsUpTo(_, _)
\* The sequences over S of length at most n.
SeqsUpTo(S, n) ==
    IF n = 0 THEN {<<>>}
    ELSE LET shorter == SeqsUpTo(S, n - 1)
         IN  shorter \cup {Append(q, x) : q \in shorter, x \in S}

(***************************************************************************)
(* procesar and procesar_buffer                                            *)
(***************************************************************************)
Init ==
    /\ entry \in {"procesar", "procesar_buffer"}
    /\ frame = NoFrame
    /\ lines \in SeqsUpTo(LineFamily, MaxLines)
    /\ pc = "read"
    /\ i = 1
    /\ parsed = <<>>
    /\ filas = <<>>
    /\ stdout = <<>>
    /\ exported = <<>>
    /\ outcome = Pending

\* parse_file, line 34: one turn of the comprehension.  An exception of
\* parse_line leaves parse_file and procesar.
ReadLine ==
    /\ entry = "procesar"
    /\ pc = "read"
    /\ i <= Len(lines)
    /\ LET row == parse_line(lines[i])
       IN  IF row.kind = "IndexError"
           THEN /\ outcome' = row
                /\ pc' = "done"
                /\ UNCHANGED <<i, filas>>
           ELSE /\ filas' = IF Truthy(row) THEN Append(filas, row.val) ELSE filas
                /\ i' = i + 1
                /\ UNCHANGED <<pc, outcome>>
    /\ UNCHANGED <<entry, frame, lines, parsed, stdout, exported>>

\* parse_file returns; line 38.
EndOfFile ==
    /\ entry = "procesar"
    /\ pc = "read"
    /\ i > Len(lines)
    /\ pc' = "check"
    /\ UNCHANGED <<entry, frame, lines, i, parsed, filas, stdout, exported, outcome>>

\* procesar_buffer, line 68: one turn of the comprehension.
BufferParse ==
    /\ entry = "procesar_buffer"
    /\ pc = "read"
    /\ i <= Len(lines)
    /\ LET row == parse_line(lines[i])
       IN  IF row.kind = "IndexError"
           THEN /\ outcome' = row
                /\ pc' = "done"
                /\ UNCHANGED <<i, parsed>>
           ELSE /\ parsed' = Append(parsed, row)
                /\ i' = i + 1
                /\ UNCHANGED <<pc, outcome>>
    /\ UNCHANGED <<entry, frame, lines, filas, stdout, exported>>

\* procesar_buffer, line 69.
BufferFilter ==
    /\ entry = "procesar_buffer"
    /\ pc = "read"
    /\ i > Len(lines)
    /\ filas' = LET kept == SelectSeq(parsed, Truthy)
                IN  [k \in 1..Len(kept) |-> kept[k].val]
    /\ pc' = "check"
    /\ UNCHANGED <<entry, frame, lines, i, parsed, stdout, exported, outcome>>

\* The text of line 40.
NoDataWarning == "No se encontraron registros validos."

\* procesar, lines 39-41.
ProcesarNoData ==
    /\ entry = "procesar"
    /\ pc = "check"
    /\ filas = <<>>
    /\ stdout' = Append(stdout, NoDataWarning)
    /\ outcome' = PyNone
    /\ pc' = "done"
    /\ UNCHANGED <<entry, frame, lines, i, parsed, filas, exported>>

\* BufferNoData had it returned an empty table instead of raising.
BufferNoDataEmptyTable ==
    /\ entry = "procesar_buffer"
    /\ pc = "check"
    /\ filas = <<>>
    /\ outcome' = PyDataFrame(<<>>)
    /\ pc' = "done"
    /\ UNCHANGED <<entry, frame, lines, i, parsed, filas, stdout, exported>>

\* procesar_buffer, lines 70-71.
BufferNoData ==
    /\ entry = "procesar_buffer"
    /\ pc = "check"
    /\ filas = <<>>
    /\ outcome' = PyRaise("ValueError")
    /\ pc' = "done"
    /\ UNCHANGED <<entry, frame, lines, i, parsed, filas, stdout, exported>>

\* procesar, lines 43-65: the table is written out and None is returned.
ProcesarExport ==
    /\ entry = "procesar"
    /\ pc = "check"
    /\ filas # <<>>
    /\ exported' = Append(exported, HourlyMeans(filas))
    /\ stdout' = Append(stdout, "Exportados")
    /\ outcome' = PyNone
    /\ pc' = "done"
    /\ UNCHANGED <<entry, frame, lines, i, parsed, filas>>

\* procesar_buffer, lines 73-82: the table is returned.
BufferAggregate ==
    /\ entry = "procesar_buffer"
    /\ pc = "check"
    /\ filas # <<>>
    /\ outcome' = PyDataFrame(HourlyMeans(filas))
    /\ pc' = "done"
    /\ UNCHANGED <<entry, frame, lines, i, parsed, filas, stdout, exported>>

Next ==
    \/ ReadLine
    \/ EndOfFile
    \/ BufferParse
    \/ BufferFilter
    \/ ProcesarNoData
    \/ BufferNoData
    \/ ProcesarExport
    \/ BufferAggregate

Spec == Init /\ [][Next]_vars

(***************************************************************************)
(* Claims about parse_line, checked under SpecParse                        *)
(***************************************************************************)
TheLine == lines[1]

ParseReturned == entry = "parse_line" /\ pc = "done"

\* parse_line got past lines 11-14: the preamble matched and a comma exists.
Tokenized == PreambleMatch(TheLine) /\ HasComma(TheLine)

Accepted == ParseReturned /\ outcome.kind = "list"

\* tok without its leading '+' characters, as a count of the leading run.
PlusStripped(tok) ==
    LET run == {k \in 1..Len(tok) : \A j \in 1..k : tok[j] = "+"}
    IN  SubSeq(tok, Cardinality(run) + 1, Len(tok))

\* C1 (as claimed): parse_line returns a list of exactly 12 fields or None for
\* every line; it never raises and never returns a list of another length.
C1_NeverRaises ==
    ParseReturned =>
        /\ outcome.kind \in {"None", "list"}
        /\ outcome.kind = "list" => Len(outcome.val) = 12

\* C2: with 13 tokens t[0..12] at the arity gate, parse_line returns
\* t[0..4], s(t[5]), s(t[6]), t[7..10], t[12], where s strips leading '+' only.
C2_RecordLayout ==
    (ParseReturned /\ Tokenized /\ Len(GateParts(TheLine)) = 13) =>
        LET t == GateParts(TheLine)
        IN  outcome = PyList(<<t[1], t[2], t[3], t[4], t[5],
                               PlusStripped(t[6]), PlusStripped(t[7]),
                               t[8], t[9], t[10], t[11], t[13]>>)

\* A Record came out of 13 tokens whose Temp began with '+' and whose
\* PuntoRocio began with '-'.
C2_Witness ==
    /\ Accepted
    /\ LET t == GateParts(TheLine)
       IN  /\ t[6] # <<>> /\ t[6][1] = "+"
           /\ t[7] # <<>> /\ t[7][1] = "-"
           /\ outcome.val[7] = t[7]

\* C3 (as claimed): a line that does not begin with the stamp immediately
\* followed by a comma yields no Record, and neither does a line whose token
\* count at the arity gate is not 13.
C3_GatesReject ==
    ParseReturned =>
        /\ ~(PreambleMatch(TheLine) /\ Len(TheLine) > 24 /\ TheLine[25] = ",")
              => outcome.kind # "list"
        /\ (Tokenized /\ Len(GateParts(TheLine)) # 13) => outcome.kind # "list"

\* The 12 tokens other than the one at index 11, as they stand in the Record.
C4_OtherValues ==
    LET t == GateParts(TheLine)
    IN  {IF k \in {6, 7} THEN PlusStripped(t[k]) ELSE t[k] : k \in (1..13) \ {12}}

C4_RecordValues == {outcome.val[j] : j \in 1..Len(outcome.val)}

\* C4 (as claimed): the Record never contains the value that stood at index 11
\* of the 13 tokens, whatever the other 12 tokens are.
C4_ValueNeverEmitted ==
    Accepted => GateParts(TheLine)[12] \notin C4_RecordValues

\* C4 (amended): the Record contains the value that stood at index 11 exactly
\* when another of the 13 tokens, after sign normalization, has that value.
C4_ValueEmittedOnlyIfShared ==
    Accepted =>
        (GateParts(TheLine)[12] \in C4_RecordValues
            <=> GateParts(TheLine)[12] \in C4_OtherValues)

\* A Record whose line carried at index 11 a value no other token has.
C4_Witness ==
    /\ Accepted
    /\ GateParts(TheLine)[12] # <<>>
    /\ GateParts(TheLine)[12] \notin C4_OtherValues

\* C5, removal: the tokens at the arity gate are the tokens of the line
\* without a first token Q and without a last token of 1-2 hex digits, and a
\* Record begins after the Q and ends before the checksum.
C5_MarkersRemoved ==
    (ParseReturned /\ Tokenized) =>
        LET tok  == Tokenize(TheLine)
            isQ  == tok # <<>> /\ tok[1] = <<"Q">>
            isC  == tok # <<>> /\ Len(tok[Len(tok)]) \in {1, 2}
                       /\ \A k \in 1..Len(tok[Len(tok)]) : tok[Len(tok)][k] \in HexDigits
            data == SubSeq(tok, IF isQ THEN 2 ELSE 1,
                           IF isC THEN Len(tok) - 1 ELSE Len(tok))
        IN  /\ GateParts(TheLine) = data
            /\ outcome.kind = "list" <=> Len(data) = 13
            /\ outcome.kind = "list" =>
                  outcome.val[1] = data[1] /\ outcome.val[12] = data[13]

\* The token a data token becomes in line 15.
Cleaned(tok) == Strip(Remove(Remove(tok, STX), ETX))

\* The line is stamp, comma, Q, 13 data tokens, checksum.
C5_BothMarkers ==
    /\ PreambleMatch(TheLine)
    /\ Find(frame.sep, ",") # 0
    /\ frame.q
    /\ frame.crc # NoCrc
    /\ Len(frame.data) = 13
    /\ \A k \in 1..13 : Cleaned(frame.data[k]) # <<>>
    /\ ~IsChecksum(Cleaned(frame.data[13]))

\* The same line with neither marker.
C5_Bare == MkLine([frame EXCEPT !.q = FALSE, !.crc = NoCrc])

C10_NoEmptyToken ==
    (ParseReturned /\ Tokenized) =>
        /\ \A k \in 1..Len(Tokenize(TheLine)) : Tokenize(TheLine)[k] # <<>>
        /\ \A k \in 1..Len(GateParts(TheLine)) : GateParts(TheLine)[k] # <<>>

(***************************************************************************)
(* Claims about the collector and the aggregation, checked under Spec      *)
(***************************************************************************)
\* The Records of the lines parse_line accepts, in input order.
AcceptedRecords(ls) ==
    LET rows == [k \in 1..Len(ls) |-> parse_line(ls[k])]
        kept == SelectSeq(rows, LAMBDA r : r.kind = "list")
    IN  [k \in 1..Len(kept) |-> kept[k].val]

\* C6 (as claimed): for every sequence of lines the collector returns the
\* Records of the accepted lines in input order; a line that is no valid
\* record never keeps a later line from being parsed and collected.
C6_CollectsEveryAccepted ==
    pc \in {"check", "done"} => filas = AcceptedRecords(lines)

\* The collector returned an empty sequence and the call has ended.
NoDataEnded == pc = "done" /\ outcome.kind # "IndexError" /\ filas = <<>>

Aggregated == pc = "done" /\ (outcome.kind = "DataFrame" \/ exported # <<>>)

\* The table the aggregation produced.
TheTable == IF entry = "procesar" THEN exported[1] ELSE outcome.val

\* The hour of Record k, when its FechaISO is a timestamp.
HasHour(k) == ToDatetime(filas[k][11]).ok
HourOf(k) == FloorHour(ToDatetime(filas[k][11]))

RECURSIVE C8_Sum(_, _)
\* The sum, in tenths, of field f over the Records of an index set.
C8_Sum(S, f) ==
    IF S = {} THEN 0
    ELSE LET k == CHOOSE x \in S : TRUE
         IN  ToNumeric(filas[k][f]).v + C8_Sum(S \ {k}, f)

\* C8: every field 0-9 of every emitted hour is the sum over the count of the
\* Records of that hour whose field coerced, a Record with another field
\* missing included; a field no Record of the hour has is missing, not zero,
\* and the hour's row is still there.
C8_MeanOfCoercible ==
    Aggregated =>
        /\ \A k \in 1..Len(filas) :
              HasHour(k) => \E j \in 1..Len(TheTable) : TheTable[j].FechaHora = HourOf(k)
        /\ \A j \in 1..Len(TheTable), f \in NumCols :
              LET S == {k \in 1..Len(filas) :
                          /\ HasHour(k)
                          /\ HourOf(k) = TheTable[j].FechaHora
                          /\ ToNumeric(filas[k][f]).ok}
                  m == TheTable[j].mean[f]
              IN  IF S = {}
                  THEN m = MissingMean
                  ELSE m.den > 0 /\ m.num * 10 * Cardinality(S) = m.den * C8_Sum(S, f)

\* One hour holds two Records, Temp 20 and 22, of which one has no Humedad:
\* Temp is 21 and Humedad 40; another hour has no Humedad at all.
C8_Witness ==
    /\ Aggregated
    /\ \E j \in 1..Len(TheTable) :
          /\ TheTable[j].mean[6] = [num |-> 21, den |-> 1]
          /\ TheTable[j].mean[5] = [num |-> 40, den |-> 1]
    /\ \E j \in 1..Len(TheTable) :
          /\ TheTable[j].mean[5] = MissingMean
          /\ TheTable[j].mean[6] = [num |-> 43, den |-> 2]

\* An hour boundary as a number that grows with time.
C9_HourIndex(h) == ((h[1] * 12 + h[2]) * 31 + h[3]) * 24 + h[4]

====
